---- MODULE Spec2Model ----
(***************************************************************************)
(* Option / Result containers of rus-ts.                                   *)
(*                                                                         *)
(* Every Option or Result value is a class instance (Some, None, Ok, Err)  *)
(* behind a Proxy built by mixin(); the combinators live on one shared     *)
(* OptionImpl / ResultImpl object and are reached through the proxy's get  *)
(* trap.  The model keeps the instances in a heap, so that "the same       *)
(* object" and "an equal object" are different things, and evaluates each  *)
(* combinator as its source does, property reads through the proxy         *)
(* included.                                                               *)
(***************************************************************************)
EXTENDS Integers, Sequences, FiniteSets, TLC

VARIABLES heap, hist

vars == <<heap, hist>>

(***************************************************************************)
(* Bounds                                                                  *)
(***************************************************************************)
\* deepest nesting of a value built by the caller, e.g. Some(Some(Some(1)))
MaxNest == 3
\* longest chain of calls in which each receiver is the previous result
MaxChain == 2

(***************************************************************************)
(* JavaScript values                                                       *)
(***************************************************************************)
Undefined == [t |-> "undefined"]
Null == [t |-> "null"]
Num(n) == [t |-> "num", n |-> n]
Bool(b) == [t |-> "bool", b |-> b]
Arr(a) == [t |-> "arr", a |-> a]
\* a reference to the instance stored at heap[i]
Ref(i) == [t |-> "ref", id |-> i]
\* a method, named by the class that defines it
Fn(owner, name) == [t |-> "fn", owner |-> owner, name |-> name]
\* a caller-supplied callback
Cb(name) == [t |-> "cb", name |-> name]
\* an exception leaving the call
Throw(e) == [t |-> "throw", e |-> e]

IsRef(v) == v.t = "ref"
IsThrow(v) == v.t = "throw"
\* the operands for which `a ?? b` evaluates b
Nullish(v) == v \in {Null, Undefined}

\* the payloads the caller constructs values from
Prims == {Num(1), Null, Undefined}

(***************************************************************************)
(* The variant classes                                                     *)
(***************************************************************************)
Some_isSome == TRUE
Some_isNone == FALSE
\* a None that answers isSome like a Some
None_isSome_asSome == TRUE
None_isSome == FALSE
None_isNone == TRUE
Ok_isOk == TRUE
Ok_isErr == FALSE
Err_isOk == FALSE
Err_isErr == TRUE

\* the methods each variant class defines itself
ClassMethods(cls) ==
  IF cls \in {"Some", "None"} THEN {"isSome", "isNone"} ELSE {"isOk", "isErr"}

\* the body of a variant class's method
ClassMethod(cls, name) ==
  CASE cls = "Some" /\ name = "isSome" -> Some_isSome
    [] cls = "Some" /\ name = "isNone" -> Some_isNone
    [] cls = "None" /\ name = "isSome" -> None_isSome
    [] cls = "None" /\ name = "isNone" -> None_isNone
    [] cls = "Ok" /\ name = "isOk" -> Ok_isOk
    [] cls = "Ok" /\ name = "isErr" -> Ok_isErr
    [] cls = "Err" /\ name = "isOk" -> Err_isOk
    [] cls = "Err" /\ name = "isErr" -> Err_isErr

\* the methods of the two shared implementation objects
OptionImplMethods ==
  {"isSome", "isNone", "unwrapOr", "unwrapOrElse", "map", "mapOr",
   "mapOrElse", "okOr", "okOrElse", "and", "andThen", "filter", "or",
   "orElse", "xor", "zip", "transpose", "flatten"}

ResultImplMethods ==
  {"isOk", "isErr", "ok", "err", "map", "mapOr", "mapOrElse", "mapErr",
   "and", "andThen", "or", "orElse", "unwrapOr", "unwrapOrElse", "transpose"}

\* the trait object each constructor mixes in
TraitOf(cls) == IF cls \in {"Some", "None"} THEN "OptionImpl" ELSE "ResultImpl"

(***************************************************************************)
(* Property lookup                                                         *)
(***************************************************************************)
\* target[key]: the instance's own `value`, or a method of its class.
\* An instance of None has no `value`; its record holds Undefined there.
\* an instance whose class declares no method of its own
TargetGet_valueOnly(o, key) ==
  IF key = "value" THEN o.value ELSE Undefined

TargetGet(o, key) ==
  IF key = "value" THEN o.value
  ELSE IF key \in ClassMethods(o.cls) THEN Fn(o.cls, key)
  ELSE Undefined

\* trait[key]
TraitGet(trait, key) ==
  IF trait = "OptionImpl" /\ key \in OptionImplMethods THEN Fn(trait, key)
  ELSE IF trait = "ResultImpl" /\ key \in ResultImplMethods THEN Fn(trait, key)
  ELSE Undefined

\* the get trap of the proxy: target[key] ?? trait[key]
\* the lookup in the other order: trait[key] ?? target[key]
mixin_traitFirst(o, key) ==
  LET shared == TraitGet(TraitOf(o.cls), key)
  IN  IF Nullish(shared) THEN TargetGet(o, key) ELSE shared

mixin(o, key) ==
  LET own == TargetGet(o, key)
  IN  IF Nullish(own) THEN TraitGet(TraitOf(o.cls), key) ELSE own

\* v[key] for any value v; reading a property of a primitive that has none
\* gives undefined, of null or undefined throws
Get(h, v, key) ==
  IF IsRef(v) THEN mixin(h[v.id], key)
  ELSE IF Nullish(v) THEN Throw("TypeError")
  ELSE Undefined

\* v.value
ValueOf(h, v) == Get(h, v, "value")

\* v.name() for a discriminator: the boolean it returns, or what it throws.
\* The implementation objects' own discriminators call themselves through
\* the proxy and never return.
Disc(h, v, name) ==
  LET fn == Get(h, v, name)
  IN  IF IsThrow(fn) THEN fn
      ELSE IF fn.t # "fn" THEN Throw("TypeError")
      ELSE IF fn.owner \in {"OptionImpl", "ResultImpl"} THEN Throw("RangeError")
      ELSE Bool(ClassMethod(fn.owner, fn.name))

(***************************************************************************)
(* Heap and constructors                                                   *)
(***************************************************************************)
\* the exported None: one instance, made when the module loads
NoneId == 1
None == Ref(NoneId)

InitHeap == <<[cls |-> "None", value |-> Undefined]>>

\* the outcome of an evaluation: the heap after it, the value returned (or
\* thrown) and the callback invocations made, in order
R(h, v, cs) == [heap |-> h, ret |-> v, calls |-> cs]

New(h, cls, v) == R(Append(h, [cls |-> cls, value |-> v]), Ref(Len(h) + 1), <<>>)

Some(h, v) == New(h, "Some", v)
Ok(h, v) == New(h, "Ok", v)
Err(h, v) == New(h, "Err", v)

(***************************************************************************)
(* Callbacks                                                               *)
(***************************************************************************)
\* one entry of the invocation log
Invoked(cb, args) == [f |-> cb, args |-> args]

\* r, with the invocations cs made before it
After(cs, r) == [r EXCEPT !.calls = cs \o r.calls]

\* the first argument a callback sees; a missing one reads undefined
Arg1(args) == IF Len(args) >= 1 THEN args[1] ELSE Undefined

\* () => y, also _ => y: the closure that returns y whatever it is given
Konst(y) == [t |-> "cb", name |-> "konst", y |-> y]

\* v => f(v).andThen(g)
Comp(f, g) == [t |-> "cb", name |-> "comp", f |-> f, g |-> g]

\* callbacks returning a plain value, a default, an Option, a Result, a
\* boolean
ValueCbs == {Cb("identity"), Cb("const2")}
DefaultCbs == {Cb("giveTwo"), Cb("echo")}
OptionCbs == {Cb("wrapSome"), Cb("toNone")}
ResultCbs == {Cb("wrapOk"), Cb("wrapErr")}
Predicates == {Cb("isNumber"), Cb("isNull"), Cb("never")}

RECURSIVE Apply(_, _, _)

(***************************************************************************)
(* OptionImpl                                                              *)
(***************************************************************************)
Option_unwrapOr(h, this, def) ==
  LET c == Disc(h, this, "isSome")
  IN  IF IsThrow(c) THEN R(h, c, <<>>)
      ELSE IF c.b THEN R(h, ValueOf(h, this), <<>>)
      ELSE R(h, def, <<>>)

\* the fallback computed before the variant is looked at
Option_unwrapOrElse_eager(h, this, f) ==
  LET d == Apply(h, f, <<>>)
      c == Disc(h, this, "isSome")
  IN  IF IsThrow(c) THEN R(h, c, <<>>)
      ELSE IF c.b THEN R(d.heap, ValueOf(h, this), d.calls)
      ELSE d

Option_unwrapOrElse(h, this, f) ==
  LET c == Disc(h, this, "isSome")
  IN  IF IsThrow(c) THEN R(h, c, <<>>)
      ELSE IF c.b THEN R(h, ValueOf(h, this), <<>>)
      ELSE Apply(h, f, <<>>)

\* the mapped payload written into the receiver, which is returned
Option_map_inPlace(h, this, f) ==
  LET c == Disc(h, this, "isSome")
  IN  IF IsThrow(c) THEN R(h, c, <<>>)
      ELSE IF c.b
        THEN LET r == Apply(h, f, <<ValueOf(h, this)>>)
             IN  R([r.heap EXCEPT ![this.id].value = r.ret], this, r.calls)
        ELSE R(h, None, <<>>)

Option_map(h, this, f) ==
  LET c == Disc(h, this, "isSome")
  IN  IF IsThrow(c) THEN R(h, c, <<>>)
      ELSE IF c.b
        THEN LET r == Apply(h, f, <<ValueOf(h, this)>>)
             IN  After(r.calls, Some(r.heap, r.ret))
        ELSE R(h, None, <<>>)

Option_mapOr(h, this, def, f) ==
  LET c == Disc(h, this, "isSome")
  IN  IF IsThrow(c) THEN R(h, c, <<>>)
      ELSE IF c.b THEN Apply(h, f, <<ValueOf(h, this)>>)
      ELSE R(h, def, <<>>)

Option_mapOrElse(h, this, def, f) ==
  LET c == Disc(h, this, "isSome")
  IN  IF IsThrow(c) THEN R(h, c, <<>>)
      ELSE IF c.b THEN Apply(h, f, <<ValueOf(h, this)>>)
      ELSE Apply(h, def, <<>>)

Option_okOr(h, this, err) ==
  LET c == Disc(h, this, "isSome")
  IN  IF IsThrow(c) THEN R(h, c, <<>>)
      ELSE IF c.b THEN Ok(h, ValueOf(h, this))
      ELSE Err(h, err)

\* the fallback's value wrapped in Ok
Option_okOrElse_asOk(h, this, err) ==
  LET c == Disc(h, this, "isSome")
  IN  IF IsThrow(c) THEN R(h, c, <<>>)
      ELSE IF c.b THEN Ok(h, ValueOf(h, this))
      ELSE LET r == Apply(h, err, <<>>)
           IN  After(r.calls, Ok(r.heap, r.ret))

Option_okOrElse(h, this, err) ==
  LET c == Disc(h, this, "isSome")
  IN  IF IsThrow(c) THEN R(h, c, <<>>)
      ELSE IF c.b THEN Ok(h, ValueOf(h, this))
      ELSE LET r == Apply(h, err, <<>>)
           IN  After(r.calls, Err(r.heap, r.ret))

Option_and(h, this, optb) ==
  LET c == Disc(h, this, "isSome")
  IN  IF IsThrow(c) THEN R(h, c, <<>>)
      ELSE IF c.b THEN R(h, optb, <<>>)
      ELSE R(h, this, <<>>)

\* the Option returned by f wrapped once more, as map would
Option_andThen_asMap(h, this, f) ==
  LET c == Disc(h, this, "isSome")
  IN  IF IsThrow(c) THEN R(h, c, <<>>)
      ELSE IF c.b
        THEN LET r == Apply(h, f, <<ValueOf(h, this)>>)
             IN  After(r.calls, Some(r.heap, r.ret))
        ELSE R(h, this, <<>>)

Option_andThen(h, this, f) ==
  LET c == Disc(h, this, "isSome")
  IN  IF IsThrow(c) THEN R(h, c, <<>>)
      ELSE IF c.b THEN Apply(h, f, <<ValueOf(h, this)>>)
      ELSE R(h, this, <<>>)

Option_filter(h, this, predicate) ==
  LET c == Disc(h, this, "isSome")
  IN  IF IsThrow(c) THEN R(h, c, <<>>)
      ELSE IF ~c.b THEN R(h, None, <<>>)
      ELSE LET p == Apply(h, predicate, <<ValueOf(h, this)>>)
           IN  IF p.ret = Bool(TRUE) THEN R(p.heap, this, p.calls)
               ELSE R(p.heap, None, p.calls)

\* the argument taken whenever the receiver is a Some, as and would
Option_or_asAnd(h, this, optb) ==
  LET c == Disc(h, this, "isSome")
  IN  IF IsThrow(c) THEN R(h, c, <<>>)
      ELSE IF c.b THEN R(h, optb, <<>>)
      ELSE R(h, this, <<>>)

Option_or(h, this, optb) ==
  LET c == Disc(h, this, "isSome")
  IN  IF IsThrow(c) THEN R(h, c, <<>>)
      ELSE IF c.b THEN R(h, this, <<>>)
      ELSE R(h, optb, <<>>)

Option_orElse(h, this, f) ==
  LET c == Disc(h, this, "isSome")
  IN  IF IsThrow(c) THEN R(h, c, <<>>)
      ELSE IF c.b THEN R(h, this, <<>>)
      ELSE Apply(h, f, <<>>)

\* the receiver kept whenever it is a Some, as or would
Option_xor_asOr(h, this, optb) ==
  LET c == Disc(h, this, "isSome")
  IN  IF IsThrow(c) THEN R(h, c, <<>>)
      ELSE IF c.b THEN R(h, this, <<>>)
      ELSE R(h, optb, <<>>)

Option_xor(h, this, optb) ==
  LET c1 == Disc(h, this, "isSome")
  IN  IF IsThrow(c1) THEN R(h, c1, <<>>)
      ELSE LET c2 == IF c1.b THEN Disc(h, optb, "isNone") ELSE Bool(FALSE)
           IN  IF IsThrow(c2) THEN R(h, c2, <<>>)
               ELSE IF c2.b THEN R(h, this, <<>>)
               ELSE LET c3 == Disc(h, this, "isNone")
                    IN  IF IsThrow(c3) THEN R(h, c3, <<>>)
                        ELSE LET c4 == IF c3.b THEN Disc(h, optb, "isSome")
                                       ELSE Bool(FALSE)
                             IN  IF IsThrow(c4) THEN R(h, c4, <<>>)
                                 ELSE IF c4.b THEN R(h, optb, <<>>)
                                 ELSE R(h, None, <<>>)

Option_zip(h, this, other) ==
  LET c1 == Disc(h, this, "isSome")
  IN  IF IsThrow(c1) THEN R(h, c1, <<>>)
      ELSE LET c2 == IF c1.b THEN Disc(h, other, "isSome") ELSE Bool(FALSE)
           IN  IF IsThrow(c2) THEN R(h, c2, <<>>)
               ELSE IF c2.b
                 THEN Some(h, Arr(<<ValueOf(h, this), ValueOf(h, other)>>))
                 ELSE R(h, None, <<>>)

Option_transpose(h, this) ==
  LET c == Disc(h, this, "isSome")
  IN  IF IsThrow(c) THEN R(h, c, <<>>)
      ELSE IF c.b
        THEN LET inner == ValueOf(h, this)
                 k == Disc(h, inner, "isOk")
             IN  IF IsThrow(k) THEN R(h, k, <<>>)
                 ELSE IF k.b
                   THEN LET s == Some(h, ValueOf(h, inner))
                        IN  Ok(s.heap, s.ret)
                   ELSE Err(h, ValueOf(h, inner))
        ELSE Ok(h, None)

\* two levels removed where the receiver has three
Option_flatten_twice(h, this) ==
  LET c == Disc(h, this, "isSome")
      inner == ValueOf(h, this)
  IN  IF IsThrow(c) THEN R(h, c, <<>>)
      ELSE IF c.b
        THEN IF h[inner.id].cls = "Some" /\ IsRef(h[inner.id].value)
               THEN R(h, ValueOf(h, inner), <<>>)
               ELSE R(h, inner, <<>>)
        ELSE R(h, this, <<>>)

Option_flatten(h, this) ==
  LET c == Disc(h, this, "isSome")
  IN  IF IsThrow(c) THEN R(h, c, <<>>)
      ELSE IF c.b THEN R(h, ValueOf(h, this), <<>>)
      ELSE R(h, this, <<>>)

fromUndefinable(h, value) ==
  IF value = Undefined THEN R(h, None, <<>>) ELSE Some(h, value)

fromNullable(h, value) ==
  IF value = Null THEN R(h, None, <<>>) ELSE Some(h, value)

\* what ./impl exports
ImplExports == {"OptionImpl", "fromUndefinable", "fromNullable"}

\* import { name } from './impl': the export of that name; a name the
\* module does not export is bound to undefined
ImplImport(name) ==
  IF name \in ImplExports THEN Fn("impl", name) ELSE Undefined

\* Option[key], Option being the exported object
\* { fromUndefinedable, fromNullable }
OptionObject(key) ==
  IF key \in {"fromUndefinedable", "fromNullable"} THEN ImplImport(key)
  ELSE Undefined

\* Option[key](value)
OptionCall(h, key, value) ==
  LET fn == OptionObject(key)
  IN  IF fn = Fn("impl", "fromUndefinable") THEN fromUndefinable(h, value)
      ELSE IF fn = Fn("impl", "fromNullable") THEN fromNullable(h, value)
      ELSE R(h, Throw("TypeError"), <<>>)

(***************************************************************************)
(* ResultImpl                                                              *)
(***************************************************************************)
Result_ok(h, this) ==
  LET c == Disc(h, this, "isOk")
  IN  IF IsThrow(c) THEN R(h, c, <<>>)
      ELSE IF c.b THEN Some(h, ValueOf(h, this))
      ELSE R(h, None, <<>>)

Result_err(h, this) ==
  LET c == Disc(h, this, "isOk")
  IN  IF IsThrow(c) THEN R(h, c, <<>>)
      ELSE IF c.b THEN R(h, None, <<>>)
      ELSE Some(h, ValueOf(h, this))

Result_map(h, this, op) ==
  LET c == Disc(h, this, "isOk")
  IN  IF IsThrow(c) THEN R(h, c, <<>>)
      ELSE IF c.b
        THEN LET r == Apply(h, op, <<ValueOf(h, this)>>)
             IN  After(r.calls, Ok(r.heap, r.ret))
        ELSE R(h, this, <<>>)

Result_mapOr(h, this, def, f) ==
  LET c == Disc(h, this, "isOk")
  IN  IF IsThrow(c) THEN R(h, c, <<>>)
      ELSE IF c.b THEN Apply(h, f, <<ValueOf(h, this)>>)
      ELSE R(h, def, <<>>)

Result_mapOrElse(h, this, def, f) ==
  LET c == Disc(h, this, "isOk")
  IN  IF IsThrow(c) THEN R(h, c, <<>>)
      ELSE IF c.b THEN Apply(h, f, <<ValueOf(h, this)>>)
      ELSE Apply(h, def, <<ValueOf(h, this)>>)

Result_mapErr(h, this, op) ==
  LET c == Disc(h, this, "isOk")
  IN  IF IsThrow(c) THEN R(h, c, <<>>)
      ELSE IF c.b THEN R(h, this, <<>>)
      ELSE LET r == Apply(h, op, <<ValueOf(h, this)>>)
           IN  After(r.calls, Err(r.heap, r.ret))

Result_and(h, this, res) ==
  LET c == Disc(h, this, "isOk")
  IN  IF IsThrow(c) THEN R(h, c, <<>>)
      ELSE IF c.b THEN R(h, res, <<>>)
      ELSE R(h, this, <<>>)

\* op called on the payload of either variant
Result_andThen_always(h, this, op) ==
  LET c == Disc(h, this, "isOk")
  IN  IF IsThrow(c) THEN R(h, c, <<>>)
      ELSE Apply(h, op, <<ValueOf(h, this)>>)

Result_andThen(h, this, op) ==
  LET c == Disc(h, this, "isOk")
  IN  IF IsThrow(c) THEN R(h, c, <<>>)
      ELSE IF c.b THEN Apply(h, op, <<ValueOf(h, this)>>)
      ELSE R(h, this, <<>>)

Result_or(h, this, res) ==
  LET c == Disc(h, this, "isOk")
  IN  IF IsThrow(c) THEN R(h, c, <<>>)
      ELSE IF c.b THEN R(h, this, <<>>)
      ELSE R(h, res, <<>>)

Result_orElse(h, this, op) ==
  LET c == Disc(h, this, "isOk")
  IN  IF IsThrow(c) THEN R(h, c, <<>>)
      ELSE IF c.b THEN R(h, this, <<>>)
      ELSE Apply(h, op, <<ValueOf(h, this)>>)

Result_unwrapOr(h, this, def) ==
  LET c == Disc(h, this, "isOk")
  IN  IF IsThrow(c) THEN R(h, c, <<>>)
      ELSE IF c.b THEN R(h, ValueOf(h, this), <<>>)
      ELSE R(h, def, <<>>)

Result_unwrapOrElse(h, this, op) ==
  LET c == Disc(h, this, "isOk")
  IN  IF IsThrow(c) THEN R(h, c, <<>>)
      ELSE IF c.b THEN R(h, ValueOf(h, this), <<>>)
      ELSE Apply(h, op, <<ValueOf(h, this)>>)

Result_transpose(h, this) ==
  LET c == Disc(h, this, "isOk")
  IN  IF IsThrow(c) THEN R(h, c, <<>>)
      ELSE IF c.b
        THEN LET inner == ValueOf(h, this)
                 k == Disc(h, inner, "isSome")
             IN  IF IsThrow(k) THEN R(h, k, <<>>)
                 ELSE IF k.b
                   THEN LET o == Ok(h, ValueOf(h, inner))
                        IN  Some(o.heap, o.ret)
                   ELSE R(h, None, <<>>)
        ELSE LET e == Err(h, ValueOf(h, this))
             IN  Some(e.heap, e.ret)

(***************************************************************************)
(* Calling a callback                                                      *)
(***************************************************************************)
\* recv.andThen(g), dispatched through the proxy of recv
InvokeAndThen(h, recv, g) ==
  LET fn == Get(h, recv, "andThen")
  IN  IF fn = Fn("OptionImpl", "andThen") THEN Option_andThen(h, recv, g)
      ELSE IF fn = Fn("ResultImpl", "andThen") THEN Result_andThen(h, recv, g)
      ELSE R(h, Throw("TypeError"), <<>>)

\* cb(...args): what the callback returns, and the log starting with this
\* invocation
\* x + 1 of JavaScript: null converts to 0, undefined and objects to NaN
NaN == [t |-> "nan"]
Inc(x) ==
  IF x.t = "num" THEN Num(x.n + 1)
  ELSE IF x = Null THEN Num(1)
  ELSE NaN

\* the README's divide: None for a zero denominator, else Some(quotient)
\* (called on exact quotients only)
divide(h, numerator, denominator) ==
  IF denominator = 0 THEN R(h, None, <<>>)
  ELSE Some(h, Num(numerator \div denominator))

Apply(h, cb, args) ==
  LET me == <<Invoked(cb, args)>>
      a == Arg1(args)
  IN  CASE cb.name = "identity" -> R(h, a, me)
        [] cb.name = "const2" -> R(h, Num(2), me)
        [] cb.name = "giveTwo" -> R(h, Num(2), me)
        [] cb.name = "echo" -> R(h, a, me)
        [] cb.name = "wrapSome" -> After(me, Some(h, a))
        [] cb.name = "toNone" -> R(h, None, me)
        [] cb.name = "wrapOk" -> After(me, Ok(h, a))
        [] cb.name = "wrapErr" -> After(me, Err(h, a))
        [] cb.name = "isNumber" -> R(h, Bool(a.t = "num"), me)
        [] cb.name = "isNull" -> R(h, Bool(a = Null), me)
        [] cb.name = "never" -> R(h, Bool(FALSE), me)
        [] cb.name = "inc" -> R(h, Inc(a), me)
        [] cb.name = "konst" -> R(h, cb.y, me)
        [] cb.name = "comp" ->
             LET r == Apply(h, cb.f, <<a>>)
             IN  After(me \o r.calls, InvokeAndThen(r.heap, r.ret, cb.g))

(***************************************************************************)
(* Values as the caller compares them                                      *)
(***************************************************************************)
RECURSIVE Deep(_, _)
\* the variant and payload behind a value, references followed: two values
\* are equal when they are the same variant with deeply equal payloads
Deep(h, v) ==
  IF IsRef(v)
    THEN IF h[v.id].cls = "None" THEN [cls |-> "None"]
         ELSE [cls |-> h[v.id].cls, value |-> Deep(h, h[v.id].value)]
  ELSE IF v.t = "arr" THEN Arr([i \in DOMAIN v.a |-> Deep(h, v.a[i])])
  ELSE v

RECURSIVE Nest(_, _)
\* how many Option/Result layers a value has
Nest(h, v) == IF IsRef(v) THEN 1 + Nest(h, h[v.id].value) ELSE 0

ClsOf(h, v) == IF IsRef(v) THEN h[v.id].cls ELSE "none"
IsOption(h, v) == ClsOf(h, v) \in {"Some", "None"}
IsResult(h, v) == ClsOf(h, v) \in {"Ok", "Err"}

Objects == {Ref(i) : i \in DOMAIN heap}
Options == {v \in Objects : IsOption(heap, v)}
Results == {v \in Objects : IsResult(heap, v)}

(***************************************************************************)
(* The caller: building values                                             *)
(***************************************************************************)
\* the most recently created instance
Top == Ref(Len(heap))

\* A new value holds a primitive, None, or the value built just before it.
\* The caller builds one value of up to MaxNest layers, and at most one
\* single-layer value beside it.
Payloads ==
  {p \in Prims \cup {None, Top} :
     /\ Nest(heap, p) < MaxNest
     /\ p # Top => Len(heap) <= Len(InitHeap) + 1}

Build(r) ==
  /\ hist = <<>>
  /\ heap' = r.heap
  /\ UNCHANGED hist

NewSome == \E p \in Payloads : Build(Some(heap, p))
NewOk == \E p \in Payloads : Build(Ok(heap, p))
NewErr == \E p \in Payloads \cap Prims : Build(Err(heap, p))

(***************************************************************************)
(* The caller: calling combinators                                         *)
(***************************************************************************)
\* the default and error values passed to the eager combinators
Defaults == {Num(2)}

Last == hist[Len(hist)]

\* receivers of a first call, and of a call chained on the previous result
FirstRecv == IF hist = <<>> THEN Objects ELSE {}
ChainRecv ==
  IF hist = <<>> THEN Objects
  ELSE IF Len(hist) < MaxChain /\ IsRef(Last.ret) THEN {Last.ret}
  ELSE {}

\* this[name] is the method `name` of impl
Has(this, impl, name) == Get(heap, this, name) = Fn(impl, name)

\* the call this.op(args) evaluated to r
Call(op, this, args, r) ==
  /\ heap' = r.heap
  /\ hist' = Append(hist, [op |-> op, this |-> this, args |-> args,
                           ret |-> r.ret, calls |-> r.calls,
                           base |-> Len(heap)])

\* the two adapters are plain functions: there is no receiver.  The caller
\* imports them from the implementation module,
FromUndefinable ==
  \E value \in Prims :
    /\ hist = <<>>
    /\ Call("fromUndefinable", Undefined, <<value>>,
            fromUndefinable(heap, value))

FromNullable ==
  \E value \in Prims :
    /\ hist = <<>>
    /\ Call("fromNullable", Undefined, <<value>>, fromNullable(heap, value))

\* or calls them on the exported Option object, as the tests and the README
\* do
OptionFromUndefinable ==
  \E value \in Prims :
    /\ hist = <<>>
    /\ Call("Option.fromUndefinable", Undefined, <<value>>,
            OptionCall(heap, "fromUndefinable", value))

OptionFromNullable ==
  \E value \in Prims :
    /\ hist = <<>>
    /\ Call("Option.fromNullable", Undefined, <<value>>,
            OptionCall(heap, "fromNullable", value))

OptionUnwrapOr(S) ==
  \E this \in S, def \in Defaults :
    /\ Has(this, "OptionImpl", "unwrapOr")
    /\ Call("Option.unwrapOr", this, <<def>>, Option_unwrapOr(heap, this, def))

OptionUnwrapOrElse(S) ==
  \E this \in S, f \in DefaultCbs :
    /\ Has(this, "OptionImpl", "unwrapOrElse")
    /\ Call("Option.unwrapOrElse", this, <<f>>,
            Option_unwrapOrElse(heap, this, f))

OptionMap(S) ==
  \E this \in S, f \in ValueCbs :
    /\ Has(this, "OptionImpl", "map")
    /\ Call("Option.map", this, <<f>>, Option_map(heap, this, f))

Numerators == {6}
Denominators == {0, 2, 3}

\* divide(a, b).map(x => x + 1)
DivideMap ==
  \E a \in Numerators, b \in Denominators :
    LET d == divide(heap, a, b)
        r == Option_map(d.heap, d.ret, Cb("inc"))
    IN  /\ hist = <<>>
        /\ Call("divide.map", Undefined, <<Num(a), Num(b)>>, r)

OptionMapOr(S) ==
  \E this \in S, def \in Defaults, f \in ValueCbs :
    /\ Has(this, "OptionImpl", "mapOr")
    /\ Call("Option.mapOr", this, <<def, f>>, Option_mapOr(heap, this, def, f))

OptionMapOrElse(S) ==
  \E this \in S, def \in DefaultCbs, f \in ValueCbs :
    /\ Has(this, "OptionImpl", "mapOrElse")
    /\ Call("Option.mapOrElse", this, <<def, f>>,
            Option_mapOrElse(heap, this, def, f))

OptionOkOr(S) ==
  \E this \in S, err \in Defaults :
    /\ Has(this, "OptionImpl", "okOr")
    /\ Call("Option.okOr", this, <<err>>, Option_okOr(heap, this, err))

OptionOkOrElse(S) ==
  \E this \in S, err \in DefaultCbs :
    /\ Has(this, "OptionImpl", "okOrElse")
    /\ Call("Option.okOrElse", this, <<err>>, Option_okOrElse(heap, this, err))

OptionAnd(S) ==
  \E this \in S, optb \in Options :
    /\ Has(this, "OptionImpl", "and")
    /\ Call("Option.and", this, <<optb>>, Option_and(heap, this, optb))

OptionAndThen(S) ==
  \E this \in S, f \in OptionCbs :
    /\ Has(this, "OptionImpl", "andThen")
    /\ Call("Option.andThen", this, <<f>>, Option_andThen(heap, this, f))

OptionFilter(S) ==
  \E this \in S, predicate \in Predicates :
    /\ Has(this, "OptionImpl", "filter")
    /\ Call("Option.filter", this, <<predicate>>,
            Option_filter(heap, this, predicate))

OptionOr(S) ==
  \E this \in S, optb \in Options :
    /\ Has(this, "OptionImpl", "or")
    /\ Call("Option.or", this, <<optb>>, Option_or(heap, this, optb))

OptionOrElse(S) ==
  \E this \in S, f \in OptionCbs :
    /\ Has(this, "OptionImpl", "orElse")
    /\ Call("Option.orElse", this, <<f>>, Option_orElse(heap, this, f))

OptionXor(S) ==
  \E this \in S, optb \in Options :
    /\ Has(this, "OptionImpl", "xor")
    /\ Call("Option.xor", this, <<optb>>, Option_xor(heap, this, optb))

OptionZip(S) ==
  \E this \in S, other \in Options :
    /\ Has(this, "OptionImpl", "zip")
    /\ Call("Option.zip", this, <<other>>, Option_zip(heap, this, other))

\* the receiver is an Option<Result<T, E>>
OptionTranspose(S) ==
  \E this \in S :
    /\ Has(this, "OptionImpl", "transpose")
    /\ this = None \/ IsResult(heap, heap[this.id].value)
    /\ Call("Option.transpose", this, <<>>, Option_transpose(heap, this))

\* the receiver is an Option<Option<U>>
OptionFlatten(S) ==
  \E this \in S :
    /\ Has(this, "OptionImpl", "flatten")
    /\ this = None \/ IsOption(heap, heap[this.id].value)
    /\ Call("Option.flatten", this, <<>>, Option_flatten(heap, this))

ResultOk(S) ==
  \E this \in S :
    /\ Has(this, "ResultImpl", "ok")
    /\ Call("Result.ok", this, <<>>, Result_ok(heap, this))

ResultErr(S) ==
  \E this \in S :
    /\ Has(this, "ResultImpl", "err")
    /\ Call("Result.err", this, <<>>, Result_err(heap, this))

ResultMap(S) ==
  \E this \in S, op \in ValueCbs :
    /\ Has(this, "ResultImpl", "map")
    /\ Call("Result.map", this, <<op>>, Result_map(heap, this, op))

ResultMapOr(S) ==
  \E this \in S, def \in Defaults, f \in ValueCbs :
    /\ Has(this, "ResultImpl", "mapOr")
    /\ Call("Result.mapOr", this, <<def, f>>, Result_mapOr(heap, this, def, f))

ResultMapOrElse(S) ==
  \E this \in S, def \in DefaultCbs, f \in ValueCbs :
    /\ Has(this, "ResultImpl", "mapOrElse")
    /\ Call("Result.mapOrElse", this, <<def, f>>,
            Result_mapOrElse(heap, this, def, f))

ResultMapErr(S) ==
  \E this \in S, op \in ValueCbs :
    /\ Has(this, "ResultImpl", "mapErr")
    /\ Call("Result.mapErr", this, <<op>>, Result_mapErr(heap, this, op))

ResultAnd(S) ==
  \E this \in S, res \in Results :
    /\ Has(this, "ResultImpl", "and")
    /\ Call("Result.and", this, <<res>>, Result_and(heap, this, res))

ResultAndThen(S) ==
  \E this \in S, op \in ResultCbs :
    /\ Has(this, "ResultImpl", "andThen")
    /\ Call("Result.andThen", this, <<op>>, Result_andThen(heap, this, op))

ResultOr(S) ==
  \E this \in S, res \in Results :
    /\ Has(this, "ResultImpl", "or")
    /\ Call("Result.or", this, <<res>>, Result_or(heap, this, res))

ResultOrElse(S) ==
  \E this \in S, op \in ResultCbs :
    /\ Has(this, "ResultImpl", "orElse")
    /\ Call("Result.orElse", this, <<op>>, Result_orElse(heap, this, op))

ResultUnwrapOr(S) ==
  \E this \in S, def \in Defaults :
    /\ Has(this, "ResultImpl", "unwrapOr")
    /\ Call("Result.unwrapOr", this, <<def>>, Result_unwrapOr(heap, this, def))

ResultUnwrapOrElse(S) ==
  \E this \in S, op \in DefaultCbs :
    /\ Has(this, "ResultImpl", "unwrapOrElse")
    /\ Call("Result.unwrapOrElse", this, <<op>>,
            Result_unwrapOrElse(heap, this, op))

\* the receiver is a Result<Option<T>, E>
ResultTranspose(S) ==
  \E this \in S :
    /\ Has(this, "ResultImpl", "transpose")
    /\ heap[this.id].cls = "Ok" => IsOption(heap, heap[this.id].value)
    /\ Call("Result.transpose", this, <<>>, Result_transpose(heap, this))

(***************************************************************************)
(* Specifications                                                          *)
(***************************************************************************)
Init ==
  /\ heap = InitHeap
  /\ hist = <<>>

\* the caller builds values, then makes one call
Next ==
  \/ NewSome
  \/ NewOk
  \/ NewErr
  \/ FromUndefinable
  \/ FromNullable
  \/ OptionFromUndefinable
  \/ OptionFromNullable
  \/ DivideMap
  \/ OptionUnwrapOr(FirstRecv)
  \/ OptionUnwrapOrElse(FirstRecv)
  \/ OptionMap(FirstRecv)
  \/ OptionMapOr(FirstRecv)
  \/ OptionMapOrElse(FirstRecv)
  \/ OptionOkOr(FirstRecv)
  \/ OptionOkOrElse(FirstRecv)
  \/ OptionAnd(FirstRecv)
  \/ OptionAndThen(FirstRecv)
  \/ OptionFilter(FirstRecv)
  \/ OptionOr(FirstRecv)
  \/ OptionOrElse(FirstRecv)
  \/ OptionXor(FirstRecv)
  \/ OptionZip(FirstRecv)
  \/ OptionTranspose(FirstRecv)
  \/ OptionFlatten(FirstRecv)
  \/ ResultOk(FirstRecv)
  \/ ResultErr(FirstRecv)
  \/ ResultMap(FirstRecv)
  \/ ResultMapOr(FirstRecv)
  \/ ResultMapOrElse(FirstRecv)
  \/ ResultMapErr(FirstRecv)
  \/ ResultAnd(FirstRecv)
  \/ ResultAndThen(FirstRecv)
  \/ ResultOr(FirstRecv)
  \/ ResultOrElse(FirstRecv)
  \/ ResultUnwrapOr(FirstRecv)
  \/ ResultUnwrapOrElse(FirstRecv)
  \/ ResultTranspose(FirstRecv)

Spec == Init /\ [][Next]_vars

\* the caller builds values, then chains transpose, flatten, andThen, map
\* and and calls, each on the result of the one before
NextChain ==
  \/ NewSome
  \/ NewOk
  \/ NewErr
  \/ OptionTranspose(ChainRecv)
  \/ ResultTranspose(ChainRecv)
  \/ OptionFlatten(ChainRecv)
  \/ OptionAndThen(ChainRecv)
  \/ ResultAndThen(ChainRecv)
  \/ ResultMap(ChainRecv)
  \/ ResultAnd(ChainRecv)

SpecChain == Init /\ [][NextChain]_vars

TypeOK ==
  /\ Len(heap) >= 1
  /\ heap[NoneId].cls = "None"
  /\ Len(hist) <= MaxChain

(***************************************************************************)
(* Properties                                                              *)
(***************************************************************************)
\* a callback that the call c did not invoke
NotInvoked(c, cb) == \A i \in DOMAIN c.calls : c.calls[i].f # cb

\* the variant of the receiver of call c
RecvCls(c) == ClsOf(heap, c.this)

\* C1: every constructed value answers exactly one discriminator of its pair
\* with true, and the one that names its variant: Some isSome, None isNone,
\* Ok isOk, Err isErr.
C1_Exhaustive ==
  \A v \in Objects :
    LET cls == heap[v.id].cls
    IN  IF cls \in {"Some", "None"}
          THEN /\ Disc(heap, v, "isSome") = Bool(cls = "Some")
               /\ Disc(heap, v, "isNone") = Bool(cls = "None")
          ELSE /\ Disc(heap, v, "isOk") = Bool(cls = "Ok")
               /\ Disc(heap, v, "isErr") = Bool(cls = "Err")

\* all four variants exist, one of them made inside a combinator
C1_Witness ==
  /\ {heap[i].cls : i \in DOMAIN heap} = {"Some", "None", "Ok", "Err"}
  /\ hist # <<>>
  /\ Len(heap) > Last.base

\* C2: a callback is not invoked when the receiver's variant makes it
\* unnecessary: on Some the fallbacks of unwrapOrElse, orElse, okOrElse and
\* the default of mapOrElse; on None the function of map, mapOr, mapOrElse,
\* andThen and the predicate of filter; on Ok the function of mapErr, orElse,
\* unwrapOrElse and the default of mapOrElse; on Err the function of map,
\* mapOr, mapOrElse and andThen.
C2_Lazy ==
  \A i \in DOMAIN hist :
    LET c == hist[i]
        cls == RecvCls(c)
    IN  /\ (/\ cls = "Some"
            /\ c.op \in {"Option.unwrapOrElse", "Option.orElse",
                         "Option.okOrElse", "Option.mapOrElse"})
             => NotInvoked(c, c.args[1])
        /\ (/\ cls = "None"
            /\ c.op \in {"Option.map", "Option.andThen", "Option.filter"})
             => NotInvoked(c, c.args[1])
        /\ (cls = "None" /\ c.op \in {"Option.mapOr", "Option.mapOrElse"})
             => NotInvoked(c, c.args[2])
        /\ (/\ cls = "Ok"
            /\ c.op \in {"Result.mapErr", "Result.orElse",
                         "Result.unwrapOrElse", "Result.mapOrElse"})
             => NotInvoked(c, c.args[1])
        /\ (cls = "Err" /\ c.op \in {"Result.map", "Result.andThen"})
             => NotInvoked(c, c.args[1])
        /\ (cls = "Err" /\ c.op \in {"Result.mapOr", "Result.mapOrElse"})
             => NotInvoked(c, c.args[2])

\* Some(v).unwrapOrElse(f) returned without calling f
C2_Witness ==
  /\ hist # <<>>
  /\ Last.op = "Option.unwrapOrElse"
  /\ RecvCls(Last) = "Some"
  /\ Last.calls = <<>>

\* C3: no step changes the variant or the payload of an existing value: a
\* combinator leaves its receiver and its arguments as they were constructed.
C3_Immutable ==
  [][/\ Len(heap') >= Len(heap)
     /\ \A i \in DOMAIN heap : heap'[i] = heap[i]]_vars

\* Some(v).map(f) has run and made a new value; the receiver is still Some(v)
C3_Witness ==
  /\ hist # <<>>
  /\ Last.op = "Option.map"
  /\ RecvCls(Last) = "Some"
  /\ Last.ret.id > Last.base
  /\ Last.calls # <<>>

\* the values a comparison expects
DNone == [cls |-> "None"]
DSome(d) == [cls |-> "Some", value |-> d]
DOk(d) == [cls |-> "Ok", value |-> d]
DErr(d) == [cls |-> "Err", value |-> d]

\* call i+1 is made on the result of call i, and both are the method op
Chained(i, op) ==
  /\ hist[i].op = op
  /\ hist[i + 1].op = op
  /\ hist[i + 1].this = hist[i].ret

\* C4: x.andThen(f).andThen(g) equals x.andThen(v => f(v).andThen(g)), for
\* Options and for Results.
C4_Associative ==
  \A i \in 1..(Len(hist) - 1) :
    LET x == hist[i].this
        fg == Comp(hist[i].args[1], hist[i + 1].args[1])
        lhs == Deep(heap, hist[i + 1].ret)
    IN  /\ Chained(i, "Option.andThen") =>
             LET r == Option_andThen(heap, x, fg)
             IN  Deep(r.heap, r.ret) = lhs
        /\ Chained(i, "Result.andThen") =>
             LET r == Result_andThen(heap, x, fg)
             IN  Deep(r.heap, r.ret) = lhs

\* Some(v).andThen(f).andThen(g), where f returned a Some and g ran
C4_Witness ==
  /\ Len(hist) = 2
  /\ Chained(1, "Option.andThen")
  /\ hist[1].calls # <<>>
  /\ hist[2].calls # <<>>
  /\ hist[1].args[1] # hist[2].args[1]

\* C5: x.map(v => v) has the variant and an equal payload of x, for every
\* Option and every Result x.
C5_MapIdentity ==
  \A i \in DOMAIN hist :
    (/\ hist[i].op \in {"Option.map", "Result.map"}
     /\ hist[i].args[1] = Cb("identity"))
      => Deep(heap, hist[i].ret) = Deep(heap, hist[i].this)

\* C6: Option.transpose followed by Result.transpose gives back a value
\* equal to the Option<Result<T, E>> it started from.
C6_RoundTrip ==
  \A i \in 1..(Len(hist) - 1) :
    (/\ hist[i].op = "Option.transpose"
     /\ hist[i + 1].op = "Result.transpose"
     /\ hist[i + 1].this = hist[i].ret)
      => Deep(heap, hist[i + 1].ret) = Deep(heap, hist[i].this)

\* C7: Option.transpose maps None to Ok(None), Some(Ok(v)) to Ok(Some(v))
\* and Some(Err(e)) to Err(e), for every v and e.
C7_OptionTranspose ==
  \A i \in DOMAIN hist :
    hist[i].op = "Option.transpose" =>
      LET x == Deep(heap, hist[i].this)
          y == Deep(heap, hist[i].ret)
      IN  IF x = DNone THEN y = DOk(DNone)
          ELSE IF x.value.cls = "Ok" THEN y = DOk(DSome(x.value.value))
          ELSE y = DErr(x.value.value)

\* C8: Result.transpose maps Ok(None) to None, Ok(Some(v)) to Some(Ok(v))
\* and Err(e) to Some(Err(e)), for every v and e.
C8_ResultTranspose ==
  \A i \in DOMAIN hist :
    hist[i].op = "Result.transpose" =>
      LET x == Deep(heap, hist[i].this)
          y == Deep(heap, hist[i].ret)
      IN  IF x.cls = "Err" THEN y = DSome(DErr(x.value))
          ELSE IF x.value = DNone THEN y = DNone
          ELSE y = DSome(DOk(x.value.value))

\* C9: flatten removes exactly one level: Some(Some(v)) gives Some(v),
\* Some(None) gives None, None gives None; on Some(Some(Some(v))) one
\* flatten gives Some(Some(v)) and a second one Some(v).
C9_Flatten ==
  /\ \A i \in DOMAIN hist :
       hist[i].op = "Option.flatten" =>
         LET x == Deep(heap, hist[i].this)
             y == Deep(heap, hist[i].ret)
         IN  IF x = DNone THEN y = DNone ELSE y = x.value
  /\ \A i \in 1..(Len(hist) - 1) :
       LET x == Deep(heap, hist[i].this)
       IN  (/\ Chained(i, "Option.flatten")
            /\ Nest(heap, hist[i].this) >= 3
            /\ x.cls = "Some" /\ x.value.cls = "Some"
            /\ x.value.value.cls = "Some")
             => /\ Deep(heap, hist[i].ret) = DSome(DSome(x.value.value.value))
                /\ Deep(heap, hist[i + 1].ret) = DSome(x.value.value.value)

\* Some(Some(Some(1))) flattened twice is Some(1)
C9_Witness ==
  /\ Len(hist) = 2
  /\ Chained(1, "Option.flatten")
  /\ Deep(heap, hist[1].this) = DSome(DSome(DSome(Num(1))))
  /\ Deep(heap, hist[2].ret) = DSome(Num(1))

\* C10: a.xor(b) is a when a is Some and b is None, b when a is None and b
\* is Some, and None when both are Some (equal payloads or not) or both None.
C10_Xor ==
  \A i \in DOMAIN hist :
    hist[i].op = "Option.xor" =>
      LET a == hist[i].this
          b == hist[i].args[1]
      IN  hist[i].ret =
            IF ClsOf(heap, a) = "Some" /\ ClsOf(heap, b) = "None" THEN a
            ELSE IF ClsOf(heap, a) = "None" /\ ClsOf(heap, b) = "Some" THEN b
            ELSE None

\* two distinct Somes with equal payloads, xor-ed to None
C10_Witness ==
  /\ hist # <<>>
  /\ Last.op = "Option.xor"
  /\ Last.this # Last.args[1]
  /\ ClsOf(heap, Last.this) = "Some"
  /\ Deep(heap, Last.this) = Deep(heap, Last.args[1])
  /\ Last.ret = None

\* the payload an instance was constructed with, as the caller compares it
Payload(v) == Deep(heap, heap[v.id].value)

\* C11: a.zip(b) is Some([s, o]), s the payload of a and o the payload of b,
\* when both are Some, and None when at least one of them is None.
C11_Zip ==
  \A i \in DOMAIN hist :
    hist[i].op = "Option.zip" =>
      LET a == hist[i].this
          b == hist[i].args[1]
      IN  IF ClsOf(heap, a) = "Some" /\ ClsOf(heap, b) = "Some"
            THEN Deep(heap, hist[i].ret) = DSome(Arr(<<Payload(a), Payload(b)>>))
            ELSE hist[i].ret = None

\* C12: fromUndefinable(v) is None exactly when v is undefined and Some(v)
\* for every other v, null included; fromNullable(v) is None exactly when v
\* is null and Some(v) for every other v, undefined included.
C12_Adapters ==
  \A i \in DOMAIN hist :
    LET v == hist[i].args[1]
        y == hist[i].ret
    IN  /\ hist[i].op \in {"fromUndefinable", "Option.fromUndefinable"} =>
             IF v = Undefined THEN y = None
             ELSE IsRef(y) /\ Deep(heap, y) = DSome(v)
        /\ hist[i].op \in {"fromNullable", "Option.fromNullable"} =>
             IF v = Null THEN y = None
             ELSE IsRef(y) /\ Deep(heap, y) = DSome(v)

\* the part of C12 that the code meets: the two functions as ./impl defines
\* them, and fromNullable on the Option object
C12_AdaptersOfImpl ==
  \A i \in DOMAIN hist :
    LET v == hist[i].args[1]
        y == hist[i].ret
    IN  /\ hist[i].op = "fromUndefinable" =>
             IF v = Undefined THEN y = None
             ELSE IsRef(y) /\ Deep(heap, y) = DSome(v)
        /\ hist[i].op \in {"fromNullable", "Option.fromNullable"} =>
             IF v = Null THEN y = None
             ELSE IsRef(y) /\ Deep(heap, y) = DSome(v)

\* the value an instance was constructed with
Stored(v) == heap[v.id].value

\* what cb(...args) returns, as the caller compares it
Returned(cb, args) ==
  LET r == Apply(heap, cb, args)
  IN  Deep(r.heap, r.ret)

\* C13: Some(v).unwrapOr(def) and Some(v).unwrapOrElse(f) return v;
\* None.unwrapOr(def) returns def and None.unwrapOrElse(f) returns f().
C13_OptionUnwrap ==
  \A i \in DOMAIN hist :
    LET c == hist[i]
    IN  /\ (c.op \in {"Option.unwrapOr", "Option.unwrapOrElse"}
            /\ RecvCls(c) = "Some") => c.ret = Stored(c.this)
        /\ (c.op = "Option.unwrapOr" /\ RecvCls(c) = "None")
             => c.ret = c.args[1]
        /\ (c.op = "Option.unwrapOrElse" /\ RecvCls(c) = "None")
             => /\ Deep(heap, c.ret) = Returned(c.args[1], <<>>)
                /\ c.calls = <<Invoked(c.args[1], <<>>)>>

\* C14: Some(v).map(f) is Some(f(v)) and None.map(f) is None;
\* Some(v).mapOr(def, f) and Some(v).mapOrElse(defFn, f) return f(v);
\* None.mapOr(def, f) returns def and None.mapOrElse(defFn, f) returns
\* defFn(); divide(6, 3).map(x => x + 1) is Some(3) and
\* divide(6, 0).map(x => x + 1) is None.
C14_OptionMap ==
  \A i \in DOMAIN hist :
    LET c == hist[i]
        fv(k) == Returned(c.args[k], <<Stored(c.this)>>)
    IN  /\ c.op = "Option.map" =>
             IF RecvCls(c) = "Some"
               THEN Deep(heap, c.ret) = DSome(fv(1))
               ELSE c.ret = None
        /\ c.op = "Option.mapOr" =>
             IF RecvCls(c) = "Some"
               THEN Deep(heap, c.ret) = fv(2)
               ELSE c.ret = c.args[1]
        /\ c.op = "Option.mapOrElse" =>
             IF RecvCls(c) = "Some"
               THEN Deep(heap, c.ret) = fv(2)
               ELSE Deep(heap, c.ret) = Returned(c.args[1], <<>>)
        /\ c.op = "divide.map" =>
             /\ c.args = <<Num(6), Num(3)>>
                  => Deep(heap, c.ret) = DSome(Num(3))
             /\ c.args[2] = Num(0) => c.ret = None

\* C15: Some(v).okOr(err) and Some(v).okOrElse(errFn) are Ok(v);
\* None.okOr(err) is Err(err) and None.okOrElse(errFn) is Err(errFn()).
C15_OkOr ==
  \A i \in DOMAIN hist :
    LET c == hist[i]
    IN  /\ c.op \in {"Option.okOr", "Option.okOrElse"} =>
             (RecvCls(c) = "Some"
                => Deep(heap, c.ret) = DOk(Payload(c.this)))
        /\ (c.op = "Option.okOr" /\ RecvCls(c) = "None")
             => Deep(heap, c.ret) = DErr(c.args[1])
        /\ (c.op = "Option.okOrElse" /\ RecvCls(c) = "None")
             => Deep(heap, c.ret) = DErr(Returned(c.args[1], <<>>))

\* C16: None.and(optb) and None.andThen(f) are None; Some(v).and(optb) is
\* optb itself (the argument, not rewrapped), and Some(v).andThen(f) is
\* exactly the Option returned by f(v).
C16_OptionAnd ==
  \A i \in DOMAIN hist :
    LET c == hist[i]
    IN  /\ c.op = "Option.and" =>
             IF RecvCls(c) = "Some"
               THEN c.ret = c.args[1]
               ELSE c.ret = None
        /\ c.op = "Option.andThen" =>
             IF RecvCls(c) = "Some"
               THEN /\ c.calls = <<Invoked(c.args[1], <<Stored(c.this)>>)>>
                    /\ Deep(heap, c.ret)
                         = Returned(c.args[1], <<Stored(c.this)>>)
               ELSE c.ret = None /\ c.calls = <<>>

\* C17: Some(v).or(optb) and Some(v).orElse(f) are the receiver itself,
\* whatever the argument (and f is not called); None.or(optb) is optb and
\* None.orElse(f) is the Option returned by f().
C17_OptionOr ==
  \A i \in DOMAIN hist :
    LET c == hist[i]
    IN  /\ c.op = "Option.or" =>
             /\ c.ret = (IF RecvCls(c) = "Some" THEN c.this ELSE c.args[1])
             /\ c.calls = <<>>
        /\ c.op = "Option.orElse" =>
             IF RecvCls(c) = "Some"
               THEN c.ret = c.this /\ c.calls = <<>>
               ELSE /\ c.calls = <<Invoked(c.args[1], <<>>)>>
                    /\ Deep(heap, c.ret) = Returned(c.args[1], <<>>)

\* or was called on a Some with another Some as argument
C17_Witness ==
  \E i \in DOMAIN hist :
    /\ hist[i].op = "Option.or"
    /\ RecvCls(hist[i]) = "Some"
    /\ ClsOf(heap, hist[i].args[1]) = "Some"
    /\ hist[i].args[1] # hist[i].this

\* C18: None.filter(pred) is None; Some(v).filter(pred) is Some(v) when
\* pred(v) is true and None when pred(v) is false.
C18_Filter ==
  \A i \in DOMAIN hist :
    LET c == hist[i]
    IN  c.op = "Option.filter" =>
          IF RecvCls(c) = "Some"
               /\ Returned(c.args[1], <<Stored(c.this)>>) = Bool(TRUE)
            THEN Deep(heap, c.ret) = DSome(Payload(c.this))
            ELSE c.ret = None

\* C19: Ok(v).ok() is Some(v) and Err(e).ok() is None; Ok(v).err() is None
\* and Err(e).err() is Some(e).
C19_ResultToOption ==
  \A i \in DOMAIN hist :
    LET c == hist[i]
    IN  /\ c.op = "Result.ok" =>
             IF RecvCls(c) = "Ok"
               THEN Deep(heap, c.ret) = DSome(Payload(c.this))
               ELSE c.ret = None
        /\ c.op = "Result.err" =>
             IF RecvCls(c) = "Err"
               THEN Deep(heap, c.ret) = DSome(Payload(c.this))
               ELSE c.ret = None

\* C20: Ok(v).map(f) is Ok(f(v)) and Err(e).map(f) is Err(e) unchanged;
\* Err(e).mapErr(f) is Err(f(e)) and Ok(v).mapErr(f) is Ok(v) unchanged.
C20_ResultMap ==
  \A i \in DOMAIN hist :
    LET c == hist[i]
        fv == Returned(c.args[1], <<Stored(c.this)>>)
    IN  /\ c.op = "Result.map" =>
             IF RecvCls(c) = "Ok"
               THEN Deep(heap, c.ret) = DOk(fv)
               ELSE /\ Deep(heap, c.ret) = DErr(Payload(c.this))
                    /\ c.calls = <<>>
        /\ c.op = "Result.mapErr" =>
             IF RecvCls(c) = "Err"
               THEN Deep(heap, c.ret) = DErr(fv)
               ELSE /\ Deep(heap, c.ret) = DOk(Payload(c.this))
                    /\ c.calls = <<>>

\* C21: Ok(v).mapOr(def, f) and Ok(v).mapOrElse(defFn, f) return f(v);
\* Err(e).mapOr(def, f) returns def and Err(e).mapOrElse(defFn, f) returns
\* defFn(e), the default function receiving the error value.
C21_ResultMapOr ==
  \A i \in DOMAIN hist :
    LET c == hist[i]
        on(k) == Returned(c.args[k], <<Stored(c.this)>>)
    IN  /\ c.op = "Result.mapOr" =>
             IF RecvCls(c) = "Ok"
               THEN Deep(heap, c.ret) = on(2)
               ELSE c.ret = c.args[1]
        /\ c.op = "Result.mapOrElse" =>
             IF RecvCls(c) = "Ok"
               THEN Deep(heap, c.ret) = on(2)
               ELSE /\ Deep(heap, c.ret) = on(1)
                    /\ c.calls = <<Invoked(c.args[1], <<Stored(c.this)>>)>>

\* C22: Err(e).and(res) and Err(e).andThen(f) return the receiver itself,
\* whatever res or f is (f is not called); Ok(v).and(res) returns res and
\* Ok(v).andThen(f) returns f(v).
C22_ResultAnd ==
  \A i \in DOMAIN hist :
    LET c == hist[i]
    IN  /\ c.op = "Result.and" =>
             /\ c.ret = (IF RecvCls(c) = "Ok" THEN c.args[1] ELSE c.this)
             /\ c.calls = <<>>
        /\ c.op = "Result.andThen" =>
             IF RecvCls(c) = "Ok"
               THEN /\ c.calls = <<Invoked(c.args[1], <<Stored(c.this)>>)>>
                    /\ Deep(heap, c.ret)
                         = Returned(c.args[1], <<Stored(c.this)>>)
               ELSE c.ret = c.this /\ c.calls = <<>>

\* C23: Ok(v).or(res) and Ok(v).orElse(f) return the receiver itself,
\* whatever res or f is (f is not called); Err(e).or(res) returns res and
\* Err(e).orElse(f) returns f(e), the function receiving the error value.
C23_ResultOr ==
  \A i \in DOMAIN hist :
    LET c == hist[i]
    IN  /\ c.op = "Result.or" =>
             /\ c.ret = (IF RecvCls(c) = "Ok" THEN c.this ELSE c.args[1])
             /\ c.calls = <<>>
        /\ c.op = "Result.orElse" =>
             IF RecvCls(c) = "Err"
               THEN /\ c.calls = <<Invoked(c.args[1], <<Stored(c.this)>>)>>
                    /\ Deep(heap, c.ret)
                         = Returned(c.args[1], <<Stored(c.this)>>)
               ELSE c.ret = c.this /\ c.calls = <<>>

\* C24: Ok(v).unwrapOr(def) and Ok(v).unwrapOrElse(f) return v;
\* Err(e).unwrapOr(def) returns def and Err(e).unwrapOrElse(f) returns f(e),
\* the function receiving the error value.
C24_ResultUnwrap ==
  \A i \in DOMAIN hist :
    LET c == hist[i]
    IN  /\ (c.op \in {"Result.unwrapOr", "Result.unwrapOrElse"}
            /\ RecvCls(c) = "Ok") => c.ret = Stored(c.this) /\ c.calls = <<>>
        /\ (c.op = "Result.unwrapOr" /\ RecvCls(c) = "Err")
             => c.ret = c.args[1]
        /\ (c.op = "Result.unwrapOrElse" /\ RecvCls(c) = "Err")
             => /\ c.calls = <<Invoked(c.args[1], <<Stored(c.this)>>)>>
                /\ Deep(heap, c.ret)
                     = Returned(c.args[1], <<Stored(c.this)>>)

\* C26: reading `value` on Some(p), Ok(p) or Err(p) yields exactly p, for
\* every payload p, null and undefined included; so Some(p).unwrapOr(d) and
\* Ok(p).unwrapOr(d) return p.
C26_PayloadFidelity ==
  /\ \A v \in Objects :
       ClsOf(heap, v) \in {"Some", "Ok", "Err"}
         => ValueOf(heap, v) = Stored(v)
  /\ \A i \in DOMAIN hist :
       (hist[i].op \in {"Option.unwrapOr", "Result.unwrapOr"}
        /\ RecvCls(hist[i]) \in {"Some", "Ok"})
         => hist[i].ret = Stored(hist[i].this)

\* the calls of the sentinel adapters, which are not combinators
AdapterOps ==
  {"fromUndefinable", "fromNullable",
   "Option.fromUndefinable", "Option.fromNullable"}

\* C25: every combinator of Option and Result, called on either variant
\* with well-typed arguments and callbacks that return, completes and
\* returns a value: none throws.
C25_Total ==
  \A i \in DOMAIN hist :
    hist[i].op \notin AdapterOps =>
      /\ ~IsThrow(hist[i].ret)
      /\ \A k \in DOMAIN hist[i].calls : hist[i].calls[k].f.t = "cb"

\* transpose has run on an Ok that holds None, and returned an Option
C25_Witness ==
  \E i \in DOMAIN hist :
    /\ hist[i].op = "Result.transpose"
    /\ RecvCls(hist[i]) = "Ok"
    /\ Stored(hist[i].this) = None
    /\ hist[i].ret = None

\* the four discriminators
Discriminators == {"isSome", "isNone", "isOk", "isErr"}

\* C27: on every value made by Some, None, Ok or Err, a discriminator of
\* its pair resolves through the proxy to the method of the value's own
\* class, and no discriminator call, direct or from inside a combinator,
\* reaches the self-calling methods of OptionImpl or ResultImpl.
C27_DispatchTerminates ==
  /\ \A v \in Objects :
       /\ \A name \in ClassMethods(ClsOf(heap, v)) :
            /\ Get(heap, v, name) = Fn(ClsOf(heap, v), name)
            /\ Disc(heap, v, name) \in {Bool(TRUE), Bool(FALSE)}
       /\ \A name \in Discriminators :
            Disc(heap, v, name) # Throw("RangeError")
  /\ \A i \in DOMAIN hist : hist[i].ret # Throw("RangeError")

\* a combinator has asked an Err and a None which variant they are
C27_Witness ==
  /\ \E v \in Objects : ClsOf(heap, v) = "Err"
  /\ \E i \in DOMAIN hist :
       /\ hist[i].op = "Option.zip"
       /\ RecvCls(hist[i]) = "Some"
       /\ hist[i].args[1] = None

\* C30: Result.transpose followed by Option.transpose gives back a value
\* equal to the Result<Option<T>, E> it started from: Ok(None), Ok(Some(v))
\* or Err(e).
C30_ReverseRoundTrip ==
  \A i \in 1..(Len(hist) - 1) :
    (/\ hist[i].op = "Result.transpose"
     /\ hist[i + 1].op = "Option.transpose"
     /\ hist[i + 1].this = hist[i].ret)
      => Deep(heap, hist[i + 1].ret) = Deep(heap, hist[i].this)

\* the steps of a Result chain
ChainOps == {"Result.andThen", "Result.map", "Result.and"}

\* calls i..j are steps of one chain, each made on the result of the one
\* before
IsChain(i, j) ==
  /\ \A k \in i..j : hist[k].op \in ChainOps
  /\ \A k \in i..(j - 1) : hist[k + 1].this = hist[k].ret

\* C28: in a chain of andThen, map and and steps on a Result, once the
\* receiver of a step is an Err (the chain's receiver, or what an earlier
\* step produced), the final result is that very Err with its payload
\* unchanged and no callback of that step or a later one is invoked; every
\* step invokes its callback at most once, in chain order.
C28_FirstErrorWins ==
  \A i \in DOMAIN hist : \A j \in i..Len(hist) :
    IsChain(i, j) =>
      /\ RecvCls(hist[i]) = "Err" =>
           /\ hist[j].ret = hist[i].this
           /\ \A k \in i..j : hist[k].calls = <<>>
           /\ Stored(hist[j].ret) = Stored(hist[i].this)
      /\ \A k \in i..j :
           /\ Len(hist[k].calls) <= 1
           /\ \A n \in DOMAIN hist[k].calls :
                hist[k].calls[n].f = hist[k].args[1]

\* a first step on an Ok produced an Err, and a later step with a callback
\* was made on it
C28_Witness ==
  /\ Len(hist) = 2
  /\ IsChain(1, 2)
  /\ hist[1].op = "Result.andThen"
  /\ RecvCls(hist[1]) = "Ok"
  /\ hist[1].calls # <<>>
  /\ ClsOf(heap, hist[1].ret) = "Err"
  /\ hist[2].op \in {"Result.andThen", "Result.map"}

\* what a call returned, as the caller compares it
Outcome(r) == Deep(r.heap, r.ret)

\* C29: each eager form returns what its lazy form returns when given the
\* closure of the same value: or / orElse, and / andThen, unwrapOr /
\* unwrapOrElse, mapOr / mapOrElse and okOr / okOrElse on an Option, and
\* or / orElse, and / andThen, unwrapOr / unwrapOrElse on a Result.
C29_EagerLazy ==
  \A i \in DOMAIN hist :
    LET c == hist[i]
        x == c.this
        k == Konst(c.args[1])
        got == Deep(heap, c.ret)
    IN  /\ c.op = "Option.or" => got = Outcome(Option_orElse(heap, x, k))
        /\ c.op = "Option.and" => got = Outcome(Option_andThen(heap, x, k))
        /\ c.op = "Option.unwrapOr"
             => got = Outcome(Option_unwrapOrElse(heap, x, k))
        /\ c.op = "Option.mapOr"
             => got = Outcome(Option_mapOrElse(heap, x, k, c.args[2]))
        /\ c.op = "Option.okOr" => got = Outcome(Option_okOrElse(heap, x, k))
        /\ c.op = "Result.or" => got = Outcome(Result_orElse(heap, x, k))
        /\ c.op = "Result.and" => got = Outcome(Result_andThen(heap, x, k))
        /\ c.op = "Result.unwrapOr"
             => got = Outcome(Result_unwrapOrElse(heap, x, k))

\* okOr was called on None, where the lazy form has to call its closure
C29_Witness ==
  \E i \in DOMAIN hist :
    /\ hist[i].op = "Option.okOr"
    /\ RecvCls(hist[i]) = "None"
    /\ ClsOf(heap, hist[i].ret) = "Err"

====
